---- MODULE Spec2Model ----
(***************************************************************************)
(* A model of the uthreads runtime: the cooperative scheduler              *)
(* (src/src/runtime.rs), the circular buffer and the channel               *)
(* (src/src/channel.rs) and the thread control block (src/src/thread.rs).  *)
(*                                                                         *)
(* A context switch is modelled by what it does to the runtime's state:    *)
(* `current` names the thread whose stack is live, and every suspended     *)
(* thread's record carries, in `ctx`, the place its saved stack pointer    *)
(* returns to ("user": user code, which for a new thread is the entry of   *)
(* its function; "yield": inside yield_thread called by user code; "run":  *)
(* inside the yield_thread of Runtime::run; "send"/"recv": inside the      *)
(* yield_thread of a parked chan_send/chan_recv).  A slot of a circular    *)
(* buffer whose element was moved out is never read again before it is     *)
(* rewritten, so it is modelled as holding the zero element again.         *)
(***************************************************************************)
EXTENDS Integers, Sequences, FiniteSets, TLC

VARIABLES
    threads,   \* Runtime.threads: sequence of Thread records
    current,   \* Runtime.current
    count,     \* Runtime.count
    chans,     \* the channels user code created, by channel name
    phase,     \* where the main (base) thread is: "main", "run", "returned"
    aborted,   \* "none", or the panic that ended the process
    hist,      \* history: what the channel calls made so far passed and returned
    nextVal,   \* history: the next fresh value user code passes to chan_send
    prog       \* scenarios: the scenario's name and the calls each thread has left

vars == <<threads, current, count, chans, phase, aborted, hist, nextVal, prog>>

----------------------------------------------------------------------------
(* Bounds of the model and constants of the program *)

\* threads ever created, the base thread included
MaxCount == 3
\* channels user code creates
NumChans == 2
\* chan_send calls made by user code that creates one channel
MaxSends == 3
\* largest buffer capacity asked for by user code that creates one channel
MaxCap == 2

\* user code with k channels makes at most SendBudget(k) chan_send calls on
\* channels of capacity at most CapBudget(k): one more channel is paid for by
\* one call and one slot less
SendBudget(k) == MaxSends + 1 - k
CapBudget(k) == MaxCap + 1 - k

BASE_THREAD_ID == 0
BLOCK_QUEUE_SIZE == 10

\* Option::None of Thread.chan_val; the values user code sends are positive
NoVal == 0

----------------------------------------------------------------------------
(* CircularBuffer, src/src/channel.rs *)

\* alloc_zeroed: every slot starts as the zero element
CircularBuffer_new(size, zero) ==
    [inner |-> [i \in 1..size |-> zero],
     write |-> 0, read |-> 0, size |-> size, full |-> (size = 0), zero |-> zero]

len(b) ==
    IF b.full THEN b.size
    ELSE IF b.write = b.read THEN 0
    ELSE IF b.write > b.read THEN b.write - b.read
    ELSE b.size + b.write - b.read

inc_write(b) ==
    LET w == (b.write + 1) % b.size
    IN  [b EXCEPT !.write = w, !.full = (w = b.read)]

\* (a variant that forgets to clear the full flag)
inc_read_keeps_full(b) ==
    [b EXCEPT !.read = (b.read + 1) % b.size]

inc_read(b) ==
    [b EXCEPT !.read = (b.read + 1) % b.size, !.full = FALSE]

\* ptr.read(): the element at the read index is moved out of its slot
move_out(b) == [b EXCEPT !.inner[b.read + 1] = b.zero]

\* (a variant that compares the indices and forgets the full flag)
is_empty_by_index(b) == b.write = b.read

is_empty(b) == len(b) = 0

is_full(b) == b.full

\* (a variant that reads the newest element instead of the oldest)
cb_read_lifo(b) ==
    IF is_empty(b) THEN [ok |-> FALSE, val |-> NoVal, buf |-> b]
    ELSE [ok |-> TRUE, val |-> b.inner[((b.write + b.size - 1) % b.size) + 1],
          buf |-> inc_read(move_out(b))]

\* Result<T, ()>: ok, the element moved out, and the buffer afterwards
cb_read(b) ==
    IF is_empty(b) THEN [ok |-> FALSE, val |-> NoVal, buf |-> b]
    ELSE [ok |-> TRUE, val |-> b.inner[b.read + 1], buf |-> inc_read(move_out(b))]

\* (a variant that overwrites the oldest element of a full buffer)
cb_write_overwrite(b, val) ==
    IF b.size = 0 THEN [ok |-> FALSE, buf |-> b]
    ELSE [ok |-> TRUE, buf |-> inc_write([b EXCEPT !.inner[b.write + 1] = val])]

\* Result<(), T>: ok and the buffer afterwards (the value comes back on Err)
cb_write(b, val) ==
    IF is_full(b) THEN [ok |-> FALSE, buf |-> b]
    ELSE [ok |-> TRUE, buf |-> inc_write([b EXCEPT !.inner[b.write + 1] = val])]

\* the elements a buffer holds, oldest first
RECURSIVE Held(_, _, _)
Held(b, from, n) ==
    IF n = 0 THEN <<>>
    ELSE <<b.inner[from + 1]>> \o Held(b, (from + 1) % b.size, n - 1)

Contents(b) == Held(b, b.read, len(b))

Channel_new(size) ==
    [buffer |-> CircularBuffer_new(size, NoVal),
     sendq  |-> CircularBuffer_new(BLOCK_QUEUE_SIZE, <<NoVal, NoVal>>),
     recvq  |-> CircularBuffer_new(BLOCK_QUEUE_SIZE, NoVal)]

----------------------------------------------------------------------------
(* Thread and Runtime helpers, src/src/thread.rs and src/src/runtime.rs *)

Thread_new(id, state) ==
    [id |-> id, state |-> state, chan_val |-> NoVal, ctx |-> "user", chan |-> 0]

\* position (1-based) of the thread with this id; 0 when unwrap() would panic
get_pos(ths, id) ==
    IF \E i \in 1..Len(ths) : ths[i].id = id
    THEN CHOOSE i \in 1..Len(ths) :
            /\ ths[i].id = id
            /\ \A j \in 1..(i - 1) : ths[j].id # id
    ELSE 0

cur_pos(ths, cur) == get_pos(ths, cur)

\* the scan of round_robin from next_pos; 0 stands for None
RECURSIVE rr_scan(_, _, _)
rr_scan(ths, start_pos, next_pos) ==
    IF ths[next_pos].state = "Ready" THEN next_pos
    ELSE LET n1 == next_pos + 1
             n2 == IF n1 = Len(ths) + 1 THEN 1 ELSE n1
         IN  IF n2 = start_pos THEN 0 ELSE rr_scan(ths, start_pos, n2)

\* (a variant that stops at the end of the list instead of wrapping around)
round_robin_no_wrap(ths, start_pos) ==
    LET ready == {i \in start_pos..Len(ths) : ths[i].state = "Ready"}
    IN  IF ready = {} THEN 0 ELSE CHOOSE i \in ready : \A j \in ready : i <= j

round_robin(ths, start_pos) == rr_scan(ths, start_pos, start_pos)

\* (a variant that takes the id for the position in the list)
change_thread_state_by_id(ths, id, state) ==
    IF id + 1 \in DOMAIN ths THEN [ths EXCEPT ![id + 1].state = state] ELSE ths

change_thread_state(ths, id, state) ==
    [ths EXCEPT ![get_pos(ths, id)].state = state]

\* (a variant that leaves the caller Running)
yield_thread_no_demote(ths, cur, resume) ==
    LET cp == cur_pos(ths, cur)
        np == round_robin(ths, cp)
    IN  IF np = 0
        THEN [threads |-> ths, current |-> cur, switched |-> FALSE]
        ELSE LET t2 == [ths EXCEPT ![cp].ctx = resume]
                 t3 == [t2 EXCEPT ![np].state = "Running"]
             IN  [threads |-> t3, current |-> t3[np].id, switched |-> TRUE]

\* (a variant that makes the caller Ready before it finds that no thread can run)
yield_thread_false_demotes(ths, cur, resume) ==
    LET cp == cur_pos(ths, cur)
        np == round_robin(ths, cp)
    IN  IF np = 0
        THEN [threads |-> [ths EXCEPT ![cp].state = "Ready"], current |-> cur,
              switched |-> FALSE]
        ELSE LET t1 == IF ths[cp].state = "Running"
                       THEN [ths EXCEPT ![cp].state = "Ready"]
                       ELSE ths
                 t2 == [t1 EXCEPT ![cp].ctx = resume]
                 t3 == [t2 EXCEPT ![np].state = "Running"]
             IN  [threads |-> t3, current |-> t3[np].id, switched |-> TRUE]

\* (a variant that overwrites the caller's state with Ready whatever it was)
yield_thread_always_demote(ths, cur, resume) ==
    LET cp == cur_pos(ths, cur)
        np == round_robin(ths, cp)
    IN  IF np = 0
        THEN [threads |-> ths, current |-> cur, switched |-> FALSE]
        ELSE LET t1 == [ths EXCEPT ![cp].state = "Ready"]
                 t2 == [t1 EXCEPT ![cp].ctx = resume]
                 t3 == [t2 EXCEPT ![np].state = "Running"]
             IN  [threads |-> t3, current |-> t3[np].id, switched |-> TRUE]

\* Runtime::yield_thread up to its switch: the thread list and current
\* afterwards, and whether a switch happened (false: it returned false)
yield_thread(ths, cur, resume) ==
    LET cp == cur_pos(ths, cur)
        np == round_robin(ths, cp)
    IN  IF np = 0
        THEN [threads |-> ths, current |-> cur, switched |-> FALSE]
        ELSE LET t1 == IF ths[cp].state = "Running"
                       THEN [ths EXCEPT ![cp].state = "Ready"]
                       ELSE ths
                 t2 == [t1 EXCEPT ![cp].ctx = resume]
                 t3 == [t2 EXCEPT ![np].state = "Running"]
             IN  [threads |-> t3, current |-> t3[np].id, switched |-> TRUE]

----------------------------------------------------------------------------
(* History of channel calls *)

\* nothing buffered and nobody parked on the channel
Idle(ch) == is_empty(ch.buffer) /\ is_empty(ch.sendq) /\ is_empty(ch.recvq)

\* hist.sent: the <<channel, value>> pairs passed to chan_send calls that did
\*   not panic;
\* hist.rcvd[c]: the values chan_recv calls on c returned, in order;
\* hist.log[c]: the calls made on c since a call last found it idle: "send",
\*   "recv" (a return) or "park" (a receiver joining recvq), with the branch
\*   taken;
\* hist.handoff[t]: the value of the chan_send that took t out of a recvq,
\*   until t's chan_recv returns;
\* hist.base: the base thread has called chan_send or chan_recv.
NoHistory ==
    [sent |-> {},
     base |-> FALSE,
     rcvd |-> [c \in DOMAIN chans |-> <<>>],
     log |-> [c \in DOMAIN chans |-> <<>>],
     handoff |-> <<>>]

Logged(h, c, idle, e) ==
    [h EXCEPT !.log[c] = IF idle THEN <<e>> ELSE Append(@, e)]

Called(h) == [h EXCEPT !.base = @ \/ current = BASE_THREAD_ID]

Sent(h, c, val, path) ==
    [Logged(Called(h), c, Idle(chans[c]), [op |-> "send", val |-> val, path |-> path])
        EXCEPT !.sent = @ \cup {<<c, val>>}]

HandedOff(h, id, val) ==
    [h EXCEPT !.handoff = [t \in DOMAIN @ \cup {id} |-> IF t = id THEN val ELSE @[t]]]

Parked(h, c) ==
    Logged(Called(h), c, Idle(chans[c]), [op |-> "park", val |-> NoVal, path |-> "recvq"])

Returned(h, c, fresh, id, val, path) ==
    [Logged(IF fresh THEN Called(h) ELSE h, c, fresh /\ Idle(chans[c]), [op |-> "recv", val |-> val, path |-> path])
        EXCEPT !.rcvd[c] = Append(@, val),
               !.handoff = [t \in DOMAIN @ \ {id} |-> @[t]]]

----------------------------------------------------------------------------
(* The operations, src/src/runtime.rs *)

ChanIds == DOMAIN chans

Me == threads[cur_pos(threads, current)]

\* the current thread is executing code of its own (not a resumption)
UserTurn ==
    /\ aborted = "none"
    /\ Me.ctx = "user"
    /\ (current = BASE_THREAD_ID => phase = "main")

Runtime_new ==
    /\ threads = <<Thread_new(BASE_THREAD_ID, "Running")>>
    /\ current = BASE_THREAD_ID
    /\ count = 1

\* (a variant that numbers the new thread by the length of the list)
create_thread_by_len ==
    /\ threads' = Append(threads, Thread_new(Len(threads), "Ready"))
    /\ count' = count + 1
    /\ UNCHANGED <<current, chans, aborted, hist>>

\* (a variant whose new thread is not Ready, so that no scan picks it)
create_thread_not_ready ==
    /\ threads' = Append(threads, Thread_new(count, "Running"))
    /\ count' = count + 1
    /\ UNCHANGED <<current, chans, aborted, hist>>

create_thread ==
    /\ threads' = Append(threads, Thread_new(count, "Ready"))
    /\ count' = count + 1
    /\ UNCHANGED <<current, chans, aborted, hist>>

\* the public yield_thread(): the result of Runtime::yield_thread is dropped
yield_now ==
    LET y == yield_thread(threads, current, "yield")
    IN  /\ threads' = y.threads
        /\ current' = y.current
        /\ UNCHANGED <<count, chans, aborted, hist>>

\* (a variant that switches to the successor and forgets to mark it Running)
done_no_mark ==
    /\ current # BASE_THREAD_ID
    /\ LET pos == cur_pos(threads, current)
           rest == SubSeq(threads, 1, pos - 1) \o SubSeq(threads, pos + 1, Len(threads))
           start_pos == IF pos = Len(rest) + 1 THEN 1 ELSE pos
           next_pos == round_robin(rest, start_pos)
       IN  IF next_pos = 0
           THEN /\ threads' = rest
                /\ aborted' = "done: round_robin(start_pos).unwrap()"
                /\ UNCHANGED current
           ELSE /\ threads' = rest
                /\ current' = rest[next_pos].id
                /\ UNCHANGED aborted
    /\ UNCHANGED <<count, chans, hist>>

\* (a variant that picks the successor and forgets to remove the thread)
done_no_remove ==
    /\ current # BASE_THREAD_ID
    /\ LET pos == cur_pos(threads, current)
           start_pos == IF pos = Len(threads) THEN 1 ELSE pos + 1
           next_pos == round_robin(threads, start_pos)
       IN  IF next_pos = 0
           THEN /\ aborted' = "done: round_robin(start_pos).unwrap()"
                /\ UNCHANGED <<threads, current>>
           ELSE /\ threads' = [threads EXCEPT ![next_pos].state = "Running"]
                /\ current' = threads[next_pos].id
                /\ UNCHANGED aborted
    /\ UNCHANGED <<count, chans, hist>>

\* Runtime::done, reached through the trampoline when a thread's function returns
done ==
    /\ current # BASE_THREAD_ID
    /\ LET pos == cur_pos(threads, current)
           rest == SubSeq(threads, 1, pos - 1) \o SubSeq(threads, pos + 1, Len(threads))
           start_pos == IF pos = Len(rest) + 1 THEN 1 ELSE pos
           next_pos == round_robin(rest, start_pos)
       IN  IF next_pos = 0
           THEN /\ threads' = rest
                /\ aborted' = "done: round_robin(start_pos).unwrap()"
                /\ UNCHANGED current
           ELSE /\ threads' = [rest EXCEPT ![next_pos].state = "Running"]
                /\ current' = rest[next_pos].id
                /\ UNCHANGED aborted
    /\ UNCHANGED <<count, chans, hist>>

\* (a variant that fills the slot of the caller instead of the receiver's)
add_val_to_chan_to_caller(ths, id, val) ==
    [ths EXCEPT ![get_pos(ths, current)].chan_val = val]

\* Runtime::add_val_to_chan past its assertions
add_val_to_chan(ths, id, val) ==
    [ths EXCEPT ![get_pos(ths, id)].chan_val = val]

chan_send(c, val) ==
    LET ch == chans[c]
        rq == cb_read(ch.recvq)
        wr == cb_write(ch.buffer, val)
        sq == cb_write(ch.sendq, <<current, val>>)
    IN  /\ UNCHANGED count
        /\ IF rq.ok
           THEN LET receiver == rq.val
                    index == get_pos(threads, receiver)
                IN  /\ chans' = [chans EXCEPT ![c].recvq = rq.buf]
                    /\ UNCHANGED current
                    /\ IF current = receiver
                       THEN /\ aborted' = "add_val_to_chan: assert_ne!(current, id)"
                            /\ hist' = Called(hist)
                            /\ UNCHANGED threads
                       ELSE IF index = 0
                       THEN /\ aborted' = "get_pos: unwrap()"
                            /\ hist' = Called(hist)
                            /\ UNCHANGED threads
                       ELSE IF threads[index].chan_val # NoVal
                       THEN /\ aborted' = "add_val_to_chan: assert!(chan_val.is_none())"
                            /\ hist' = Called(hist)
                            /\ UNCHANGED threads
                       ELSE /\ threads' = change_thread_state(
                                             add_val_to_chan(threads, receiver, val),
                                             receiver, "Ready")
                            /\ hist' = HandedOff(Sent(hist, c, val, "recvq"), receiver, val)
                            /\ UNCHANGED aborted
           ELSE IF wr.ok
           THEN /\ chans' = [chans EXCEPT ![c].buffer = wr.buf]
                /\ hist' = Sent(hist, c, val, "buffer")
                /\ UNCHANGED <<threads, current, aborted>>
           ELSE IF ~sq.ok
           THEN /\ aborted' = "No more space in sendq"
                /\ hist' = Called(hist)
                /\ UNCHANGED <<threads, current, chans>>
           ELSE LET blocked == change_thread_state(threads, current, "ChannelBlockSend")
                    y == yield_thread(blocked, current, "send")
                IN  /\ chans' = [chans EXCEPT ![c].sendq = sq.buf]
                    /\ threads' = y.threads
                    /\ current' = y.current
                    /\ hist' = Sent(hist, c, val, "sendq")
                    /\ UNCHANGED aborted

\* (a variant that copies the delivered value instead of taking it)
get_val_from_chan_copy(ths, cur) ==
    [val |-> ths[get_pos(ths, cur)].chan_val, threads |-> ths]

\* Runtime::get_val_from_chan: the value taken and the thread list afterwards
get_val_from_chan(ths, cur) ==
    LET index == get_pos(ths, cur)
    IN  [val |-> ths[index].chan_val,
         threads |-> [ths EXCEPT ![index].chan_val = NoVal]]

\* (a variant that reads the delivered slot and leaves the value in it)
recv_after_yield_peek(ths, chs, cur, c) ==
    LET val == ths[get_pos(ths, cur)].chan_val
        bf == cb_read(chs[c].buffer)
    IN  IF val # NoVal
        THEN [ok |-> TRUE, val |-> val, path |-> "delivered",
              threads |-> ths, chans |-> chs]
        ELSE IF bf.ok
        THEN [ok |-> TRUE, val |-> bf.val, path |-> "refill",
              threads |-> ths, chans |-> [chs EXCEPT ![c].buffer = bf.buf]]
        ELSE [ok |-> FALSE, val |-> NoVal, path |-> "none",
              threads |-> ths, chans |-> chs]

\* chan_recv after its yield_thread() call: delivered slot, else buffer, else panic
recv_after_yield(ths, chs, cur, c) ==
    LET got == get_val_from_chan(ths, cur)
        bf == cb_read(chs[c].buffer)
    IN  IF got.val # NoVal
        THEN [ok |-> TRUE, val |-> got.val, path |-> "delivered",
              threads |-> got.threads, chans |-> chs]
        ELSE IF bf.ok
        THEN [ok |-> TRUE, val |-> bf.val, path |-> "refill",
              threads |-> got.threads, chans |-> [chs EXCEPT ![c].buffer = bf.buf]]
        ELSE [ok |-> FALSE, val |-> NoVal, path |-> "none",
              threads |-> got.threads, chans |-> chs]

chan_recv(c) ==
    LET ch == chans[c]
        sq == cb_read(ch.sendq)
        bf == cb_read(ch.buffer)
        rq == cb_write(ch.recvq, current)
    IN  /\ UNCHANGED count
        /\ IF sq.ok
           THEN LET sender == sq.val[1]
                    val == sq.val[2]
                IN  /\ chans' = [chans EXCEPT ![c].sendq = sq.buf]
                    /\ UNCHANGED current
                    /\ IF get_pos(threads, sender) = 0
                       THEN /\ aborted' = "get_pos: unwrap()"
                            /\ hist' = Called(hist)
                            /\ UNCHANGED threads
                       ELSE /\ threads' = change_thread_state(threads, sender, "Ready")
                            /\ hist' = Returned(hist, c, TRUE, current, val, "sendq")
                            /\ UNCHANGED aborted
           ELSE IF bf.ok
           THEN /\ chans' = [chans EXCEPT ![c].buffer = bf.buf]
                /\ hist' = Returned(hist, c, TRUE, current, bf.val, "buffer")
                /\ UNCHANGED <<threads, current, aborted>>
           ELSE IF ~rq.ok
           THEN /\ aborted' = "No more space in recvq"
                /\ hist' = Called(hist)
                /\ UNCHANGED <<threads, current, chans>>
           ELSE LET parked == [chans EXCEPT ![c].recvq = rq.buf]
                    blocked == [change_thread_state(threads, current, "ChannelBlockRecv")
                                   EXCEPT ![cur_pos(threads, current)].chan = c]
                    y == yield_thread(blocked, current, "recv")
                    park == Parked(hist, c)
                    r == recv_after_yield(blocked, parked, current, c)
                IN  IF y.switched
                    THEN /\ chans' = parked
                         /\ threads' = y.threads
                         /\ current' = y.current
                         /\ hist' = park
                         /\ UNCHANGED aborted
                    ELSE /\ chans' = r.chans
                         /\ threads' = r.threads
                         /\ UNCHANGED current
                         /\ IF r.ok
                            THEN /\ hist' = Returned(park, c, FALSE, current, r.val, r.path)
                                 /\ UNCHANGED aborted
                            ELSE /\ hist' = park
                                 /\ aborted' = "chan_recv: unwrap() on None"

\* a thread switched back in: the rest of the call it was suspended in
resume ==
    /\ aborted = "none"
    /\ Me.ctx \in {"yield", "run", "send", "recv"}
    /\ LET pos == cur_pos(threads, current)
           back == [threads EXCEPT ![pos].ctx = "user", ![pos].chan = 0]
           r == recv_after_yield(back, chans, current, Me.chan)
       IN  IF Me.ctx = "recv"
           THEN /\ threads' = r.threads
                /\ chans' = r.chans
                /\ IF r.ok
                   THEN /\ hist' = Returned(hist, Me.chan, FALSE, current, r.val, r.path)
                        /\ UNCHANGED aborted
                   ELSE /\ aborted' = "chan_recv: unwrap() on None"
                        /\ UNCHANGED hist
           ELSE /\ threads' = back
                /\ UNCHANGED <<chans, hist, aborted>>
    /\ UNCHANGED <<current, count>>

\* Runtime::run: one turn of `while self.yield_thread() {}`
run ==
    /\ aborted = "none"
    /\ current = BASE_THREAD_ID
    /\ phase = "run"
    /\ Me.ctx = "user"
    /\ LET y == yield_thread(threads, current, "run")
       IN  /\ threads' = y.threads
           /\ current' = y.current
           /\ phase' = IF y.switched THEN "run" ELSE "returned"
    /\ UNCHANGED <<count, chans, aborted, hist, nextVal, prog>>

----------------------------------------------------------------------------
(* User code that may call anything, in any order *)

Init ==
    /\ Runtime_new
    /\ \E k \in 1..NumChans :
          chans \in [1..k -> {Channel_new(size) : size \in 0..CapBudget(k)}]
    /\ phase = "main"
    /\ aborted = "none"
    /\ hist = NoHistory
    /\ nextVal = 1
    /\ prog = [name |-> "free", code |-> <<>>]

Spawn ==
    /\ UserTurn
    /\ count < MaxCount
    /\ create_thread
    /\ UNCHANGED <<phase, nextVal, prog>>

Yield ==
    /\ UserTurn
    /\ yield_now
    /\ UNCHANGED <<phase, nextVal, prog>>

Send ==
    /\ UserTurn
    /\ nextVal <= SendBudget(Cardinality(ChanIds))
    /\ \E c \in ChanIds : chan_send(c, nextVal)
    /\ nextVal' = nextVal + 1
    /\ UNCHANGED <<phase, prog>>

Recv ==
    /\ UserTurn
    /\ \E c \in ChanIds : chan_recv(c)
    /\ UNCHANGED <<phase, nextVal, prog>>

Return ==
    /\ UserTurn
    /\ done
    /\ UNCHANGED <<phase, nextVal, prog>>

Resume ==
    /\ resume
    /\ UNCHANGED <<phase, nextVal, prog>>

\* the main thread calls Runtime::run
EnterRun ==
    /\ UserTurn
    /\ current = BASE_THREAD_ID
    /\ phase' = "run"
    /\ UNCHANGED <<threads, current, count, chans, aborted, hist, nextVal, prog>>

Next ==
    \/ Spawn
    \/ Yield
    \/ Send
    \/ Recv
    \/ Return
    \/ Resume
    \/ EnterRun
    \/ run

Spec == Init /\ [][Next]_vars

----------------------------------------------------------------------------
(* The end-to-end scenarios with channels.  In each the main thread spawns *)
(* two threads and calls Runtime::run; the threads use one channel.        *)
(*   S3: capacity 1; a receiver calls chan_recv 10 times, a sender calls   *)
(*       chan_send with 1, 2, ..., 15; spawned in either order.            *)
(*   S4: capacity 0; the sender runs first and calls chan_send(42), the    *)
(*       receiver calls chan_recv once.                                    *)
(*   S5: capacity 1; the receiver runs first and calls chan_recv once,     *)
(*       the sender calls chan_send(7).                                    *)

S3Sends == 15
S3Recvs == 10

Sender(vals) == [n \in 1..Len(vals) |-> [op |-> "send", val |-> vals[n]]]
Receiver(n) == [i \in 1..n |-> [op |-> "recv", val |-> NoVal]]

Scenarios ==
    {[name |-> "S3", cap |-> 1,
      code |-> <<Receiver(S3Recvs), Sender([n \in 1..S3Sends |-> n])>>],
     [name |-> "S3", cap |-> 1,
      code |-> <<Sender([n \in 1..S3Sends |-> n]), Receiver(S3Recvs)>>],
     [name |-> "S4", cap |-> 0, code |-> <<Sender(<<42>>), Receiver(1)>>],
     [name |-> "S5", cap |-> 1, code |-> <<Receiver(1), Sender(<<7>>)>>]}

ScInit ==
    /\ Runtime_new
    /\ \E sc \in Scenarios :
          /\ chans = [c \in {1} |-> Channel_new(sc.cap)]
          /\ prog = [name |-> sc.name, code |-> sc.code]
    /\ phase = "main"
    /\ aborted = "none"
    /\ hist = NoHistory
    /\ nextVal = 1

\* the operation the current thread's function makes next
Op == Head(prog.code[current])

Step == prog' = [prog EXCEPT !.code[current] = Tail(@)]

ScSpawn ==
    /\ UserTurn
    /\ current = BASE_THREAD_ID
    /\ count <= Len(prog.code)
    /\ create_thread
    /\ UNCHANGED <<phase, nextVal, prog>>

ScEnterRun ==
    /\ UserTurn
    /\ current = BASE_THREAD_ID
    /\ count = Len(prog.code) + 1
    /\ phase' = "run"
    /\ UNCHANGED <<threads, current, count, chans, aborted, hist, nextVal, prog>>

ScSend ==
    /\ UserTurn
    /\ current # BASE_THREAD_ID
    /\ prog.code[current] # <<>>
    /\ Op.op = "send"
    /\ chan_send(1, Op.val)
    /\ Step
    /\ UNCHANGED <<phase, nextVal>>

ScRecv ==
    /\ UserTurn
    /\ current # BASE_THREAD_ID
    /\ prog.code[current] # <<>>
    /\ Op.op = "recv"
    /\ chan_recv(1)
    /\ Step
    /\ UNCHANGED <<phase, nextVal>>

ScReturn ==
    /\ UserTurn
    /\ current # BASE_THREAD_ID
    /\ prog.code[current] = <<>>
    /\ done
    /\ UNCHANGED <<phase, nextVal, prog>>

ScNext ==
    \/ ScSpawn
    \/ ScEnterRun
    \/ ScSend
    \/ ScRecv
    \/ ScReturn
    \/ Resume
    \/ run

SpecScenarios == ScInit /\ [][ScNext]_vars

----------------------------------------------------------------------------
(* User code that only yields and spawns: the demo of main (T1 yields 10   *)
(* times and then spawns T3, which yields 20 times; T2 yields 15 times),   *)
(* scenario S1 (T1 and T2 alone), scenario S2 (T1 and its T3 alone), and   *)
(* every program in which the main thread spawns MaxMainSpawns threads at  *)
(* most whose functions make at most MaxProgLen calls.  The main thread    *)
(* spawns the threads of prog.main in order and calls Runtime::run.        *)

T1Yields == 10
T2Yields == 15
T3Yields == 20

\* calls a thread's function makes, at most, in the small programs
MaxProgLen == 2
\* threads the main thread spawns, at most, in the small programs
MaxMainSpawns == 2

YieldOp == [op |-> "yield", code |-> <<>>]
SpawnOp(code) == [op |-> "spawn", code |-> code]
Yields(n) == [i \in 1..n |-> YieldOp]

SmallOps == {YieldOp, SpawnOp(Yields(1))}
SmallCode == UNION {[1..n -> SmallOps] : n \in 0..MaxProgLen}

YieldPrograms ==
    {[name |-> "demo",
      main |-> <<Yields(T1Yields) \o <<SpawnOp(Yields(T3Yields))>>, Yields(T2Yields)>>],
     [name |-> "S1", main |-> <<Yields(T1Yields), Yields(T2Yields)>>],
     [name |-> "S2", main |-> <<Yields(T1Yields) \o <<SpawnOp(Yields(T3Yields))>>>>]}
        \cup {[name |-> "small", main |-> m] :
                 m \in UNION {[1..n -> SmallCode] : n \in 0..MaxMainSpawns}}

YInit ==
    /\ Runtime_new
    /\ chans = <<>>
    /\ \E pr \in YieldPrograms :
          prog = [name |-> pr.name, code |-> <<>>, main |-> pr.main]
    /\ phase = "main"
    /\ aborted = "none"
    /\ hist = NoHistory
    /\ nextVal = 1

\* spawn_thread(f): the new thread gets the id count and the function f
YMainSpawn ==
    /\ UserTurn
    /\ current = BASE_THREAD_ID
    /\ prog.main # <<>>
    /\ create_thread
    /\ prog' = [prog EXCEPT !.code = Append(@, Head(prog.main)), !.main = Tail(@)]
    /\ UNCHANGED <<phase, nextVal>>

YEnterRun ==
    /\ UserTurn
    /\ current = BASE_THREAD_ID
    /\ prog.main = <<>>
    /\ phase' = "run"
    /\ UNCHANGED <<threads, current, count, chans, aborted, hist, nextVal, prog>>

YYield ==
    /\ UserTurn
    /\ current # BASE_THREAD_ID
    /\ prog.code[current] # <<>>
    /\ Op.op = "yield"
    /\ yield_now
    /\ Step
    /\ UNCHANGED <<phase, nextVal>>

YSpawn ==
    /\ UserTurn
    /\ current # BASE_THREAD_ID
    /\ prog.code[current] # <<>>
    /\ Op.op = "spawn"
    /\ create_thread
    /\ prog' = [prog EXCEPT !.code = Append([@ EXCEPT ![current] = Tail(@)], Op.code)]
    /\ UNCHANGED <<phase, nextVal>>

YReturn ==
    /\ UserTurn
    /\ current # BASE_THREAD_ID
    /\ prog.code[current] = <<>>
    /\ done
    /\ UNCHANGED <<phase, nextVal, prog>>

YNext ==
    \/ YMainSpawn
    \/ YEnterRun
    \/ YYield
    \/ YSpawn
    \/ YReturn
    \/ Resume
    \/ run

\* one thread runs at a time and nothing preempts it: the running thread
\* always takes its next step
SpecYieldOnly == YInit /\ [][YNext]_vars /\ WF_vars(YNext)

----------------------------------------------------------------------------
(* Fan-in: the main thread spawns up to MaxFanIn threads that each make     *)
(* one call on the same channel, all chan_send or all chan_recv, and calls  *)
(* Runtime::run.  With more than BLOCK_QUEUE_SIZE threads the queue of      *)
(* parked threads runs out of room.                                         *)

MaxFanIn == 12

FanIns ==
    {[name |-> "fan-in", cap |-> cap,
      code |-> [t \in 1..n |-> IF kind = "send" THEN Sender(<<t>>) ELSE Receiver(1)]] :
        cap \in 0..1, n \in 1..MaxFanIn, kind \in {"send", "recv"}}

FanInInit ==
    /\ Runtime_new
    /\ \E sc \in FanIns :
          /\ chans = [c \in {1} |-> Channel_new(sc.cap)]
          /\ prog = [name |-> sc.name, code |-> sc.code]
    /\ phase = "main"
    /\ aborted = "none"
    /\ hist = NoHistory
    /\ nextVal = 1

SpecFanIn == FanInInit /\ [][ScNext]_vars

----------------------------------------------------------------------------
(* round_robin on any thread list: the list is any list of at most MaxList  *)
(* threads, in any states, the base thread first, and any of them is        *)
(* current; the threads yield and complete.                                 *)

MaxList == 4

States == {"Running", "Ready", "ChannelBlockSend", "ChannelBlockRecv"}

AnyListInit ==
    /\ \E n \in 1..MaxList : \E sts \in [1..n -> States] :
          /\ threads = [i \in 1..n |-> Thread_new(i - 1, sts[i])]
          /\ current \in 0..(n - 1)
          /\ count = n
    /\ chans = <<>>
    /\ phase = "main"
    /\ aborted = "none"
    /\ hist = NoHistory
    /\ nextVal = 1
    /\ prog = [name |-> "any list", code |-> <<>>]

AnyListNext ==
    \/ Yield
    \/ Return
    \/ Resume

SpecAnyList == AnyListInit /\ [][AnyListNext]_vars

----------------------------------------------------------------------------
(* A CircularBuffer alone, of any capacity up to MaxBufSize, under any      *)
(* sequence of write and read calls: the buffer is chans[1].buffer, the     *)
(* values written are 1, 2, ..., and hist holds the bounded FIFO queue the  *)
(* buffer is compared with and what the last call returned.                 *)
(* (CircularBuffer::new(0) asks alloc_zeroed for no bytes; the pointer it   *)
(* gets, whatever it is, is never dereferenced: read and write fail first.) *)

MaxBufSize == 3
MaxWrites == 5

BufInit ==
    /\ Runtime_new
    /\ \E size \in 0..MaxBufSize : chans = <<Channel_new(size)>>
    /\ phase = "main"
    /\ aborted = "none"
    /\ hist = [queue |-> <<>>, op |-> "new", ok |-> TRUE, val |-> NoVal,
               held |-> 0]
    /\ nextVal = 1
    /\ prog = [name |-> "buffer", code |-> <<>>]

\* buffer.write(nextVal); the queue takes the value if it holds less than size
BufWrite ==
    /\ nextVal <= MaxWrites
    /\ LET b == chans[1].buffer
           w == cb_write(b, nextVal)
       IN  /\ chans' = [chans EXCEPT ![1].buffer = w.buf]
           /\ hist' = [queue |-> IF Len(hist.queue) < b.size
                                 THEN Append(hist.queue, nextVal)
                                 ELSE hist.queue,
                       op |-> "write", ok |-> w.ok, val |-> nextVal,
                       held |-> Len(hist.queue)]
    /\ nextVal' = nextVal + 1
    /\ UNCHANGED <<threads, current, count, phase, aborted, prog>>

\* buffer.read(); the queue gives its oldest value if it holds one
BufRead ==
    /\ LET r == cb_read(chans[1].buffer)
       IN  /\ chans' = [chans EXCEPT ![1].buffer = r.buf]
           /\ hist' = [queue |-> IF hist.queue # <<>> THEN Tail(hist.queue) ELSE <<>>,
                       op |-> "read", ok |-> r.ok, val |-> r.val,
                       held |-> Len(hist.queue)]
    /\ UNCHANGED <<threads, current, count, phase, aborted, nextVal, prog>>

BufNext ==
    \/ BufWrite
    \/ BufRead

SpecBuffer == BufInit /\ [][BufNext]_vars

----------------------------------------------------------------------------
(* Properties *)

Range(f) == {f[i] : i \in DOMAIN f}

\* how many elements of the sequence q satisfy equality with x
RECURSIVE Occurrences(_, _)
Occurrences(q, x) ==
    IF q = <<>> THEN 0
    ELSE (IF Head(q) = x THEN 1 ELSE 0) + Occurrences(Tail(q), x)

\* the values parked senders wait to hand over, oldest first
SendqVals(c) ==
    LET q == Contents(chans[c].sendq) IN [i \in 1..Len(q) |-> q[i][2]]

\* the delivered slots of the live threads
Delivered == [i \in 1..Len(threads) |-> threads[i].chan_val]

\* C1: in scenario S3 the 10 values the receiver's chan_recv calls return are
\* 1, 2, ..., 10 in ascending order.
C1_S3ReceivesInOrder ==
    (prog.name = "S3" /\ Len(hist.rcvd[1]) = S3Recvs)
        => hist.rcvd[1] = [i \in 1..S3Recvs |-> i]

\* the log of channel c is n chan_send calls that all went into the buffer,
\* followed only by chan_recv calls (each returning without parking), at most
\* n of them
FilledThenDrained(c, n) ==
    LET l == hist.log[c]
    IN  /\ n <= Len(l)
        /\ Len(l) <= 2 * n
        /\ \A i \in 1..n : l[i].op = "send" /\ l[i].path = "buffer"
        /\ \A i \in (n + 1)..Len(l) :
              l[i].op = "recv" /\ l[i].path \in {"buffer", "sendq"}

\* C2: on a channel found idle (nothing buffered, nobody parked), n chan_send
\* calls that all fit the buffer followed by chan_recv calls: the k-th
\* chan_recv returns the value of the k-th chan_send.
C2_BufferedFifo ==
    \A c \in ChanIds : \A n \in 1..Len(hist.log[c]) :
        FilledThenDrained(c, n)
            => \A i \in (n + 1)..Len(hist.log[c]) :
                  hist.log[c][i].val = hist.log[c][i - n].val

\* two values written at the wrapped-around indices of a buffer of capacity 2
\* and both read back
C2_Witness ==
    \E c \in ChanIds :
        /\ chans[c].buffer.size = 2
        /\ FilledThenDrained(c, 2)
        /\ Len(hist.log[c]) = 4
        /\ Len(hist.rcvd[c]) = 3

\* the number of places that hold the value v sent on channel c
Places(c, v) ==
    Occurrences(Contents(chans[c].buffer), v)
        + Occurrences(SendqVals(c), v)
        + Occurrences(Delivered, v)
        + Occurrences(hist.rcvd[c], v)

\* C3: while the process has not panicked, every value passed to a chan_send
\* that did not panic is in exactly one place (the buffer, a sendq entry, a
\* delivered slot, or the result of one chan_recv), and nothing else is in any
\* of these places.
C3_ValuesConserved ==
    aborted = "none" =>
        /\ \A p \in hist.sent : Places(p[1], p[2]) = 1
        /\ \A c \in ChanIds :
              \A v \in Range(Contents(chans[c].buffer)) \cup Range(SendqVals(c))
                         \cup Range(hist.rcvd[c]) :
                  <<c, v>> \in hist.sent
        /\ \A v \in Range(Delivered) \ {NoVal} : \E c \in ChanIds : <<c, v>> \in hist.sent

\* values in a sendq entry, in a delivered slot and returned, at once
C3_Witness ==
    /\ aborted = "none"
    /\ \E c \in ChanIds :
          /\ SendqVals(c) # <<>>
          /\ hist.rcvd[c] # <<>>
    /\ \E i \in 1..Len(threads) : threads[i].chan_val # NoVal

\* the thread with this id, and whether it is still in the thread list
Live(ths, id) == get_pos(ths, id) # 0
Thread(ths, id) == ths[get_pos(ths, id)]

\* the thread list with the state of every thread of this id replaced
WithState(ths, id, state) ==
    [i \in 1..Len(ths) |->
        IF ths[i].id = id THEN [ths[i] EXCEPT !.state = state] ELSE ths[i]]

\* on a channel with no parked receiver whose buffer takes nothing more,
\* chan_send by a non-base thread S parks S: S becomes ChannelBlockSend,
\* (S, v) is appended to sendq, and another thread runs
SendParksAndSwitches(c) ==
    (/\ UserTurn
     /\ current # BASE_THREAD_ID
     /\ is_empty(chans[c].recvq)
     /\ chan_send(c, nextVal))
        => /\ aborted' = "none"
           /\ Live(threads', current)
           /\ Thread(threads', current).state = "ChannelBlockSend"
           /\ Contents(chans'[c].sendq)
                 = Append(Contents(chans[c].sendq), <<current, nextVal>>)
           /\ current' # current

\* chan_recv on a channel with a parked sender returns the value of the
\* sender S at the head of sendq, removes S's entry and makes S, and no other
\* thread, Ready
RecvTakesHeadSender(c) ==
    (/\ UserTurn
     /\ ~is_empty(chans[c].sendq)
     /\ chan_recv(c))
        => LET head == Contents(chans[c].sendq)[1]
           IN  /\ aborted' = "none"
               /\ hist'.rcvd[c] = Append(hist.rcvd[c], head[2])
               /\ Contents(chans'[c].sendq) = Tail(Contents(chans[c].sendq))
               /\ Live(threads, head[1])
               /\ threads' = WithState(threads, head[1], "Ready")
               /\ current' = current

\* C4: on a channel of capacity 0 with no parked receiver, chan_send by a
\* non-base thread S parks S (S becomes ChannelBlockSend, (S, v) is appended
\* to sendq, and another thread runs); a chan_recv on the channel with S at
\* the head of sendq returns v, removes S's entry and makes S, and no other
\* thread, Ready.
C4_Rendezvous ==
    [][\A c \in ChanIds :
          chans[c].buffer.size = 0
              => SendParksAndSwitches(c) /\ RecvTakesHeadSender(c)]_vars

\* chan_send on a channel whose recvq is nonempty: the direct hand-off and
\* its frame
SendHandsOver(c) ==
    (/\ UserTurn
     /\ ~is_empty(chans[c].recvq)
     /\ chan_send(c, nextVal))
        => LET R == Contents(chans[c].recvq)[1]
           IN  /\ aborted' = "none"
               /\ Contents(chans'[c].recvq) = Tail(Contents(chans[c].recvq))
               /\ Live(threads, R)
               /\ threads' =
                     [i \in 1..Len(threads) |->
                         IF i = get_pos(threads, R)
                         THEN [threads[i] EXCEPT !.chan_val = nextVal, !.state = "Ready"]
                         ELSE threads[i]]
               /\ R # current
               /\ chans'[c].buffer = chans[c].buffer
               /\ chans'[c].sendq = chans[c].sendq
               /\ current' = current

\* a receiver parked on the idle channel c of capacity 1 and a chan_send
\* followed
ReceiverFirst(c) ==
    /\ chans[c].buffer.size = 1
    /\ Len(hist.log[c]) = 2
    /\ hist.log[c][1].op = "park"
    /\ hist.log[c][2].op = "send"

\* C5: chan_send on a channel whose recvq is nonempty takes the head receiver
\* R out of recvq, puts the value in R's delivered slot, makes R Ready, leaves
\* buffer and sendq alone and does not switch (current and every other
\* thread, the sender included, are as before); and after a receiver parked
\* on an idle channel of capacity 1 and a chan_send handed it the value,
\* buffer, recvq and sendq are all empty.
C5_ReceiverFirstFastPath ==
    /\ [][\A c \in ChanIds : SendHandsOver(c)]_vars
    /\ [](\A c \in ChanIds : ReceiverFirst(c) => Idle(chans[c]))

C5_Witness ==
    \E c \in ChanIds :
        /\ ReceiverFirst(c)
        /\ hist.log[c][2].path = "recvq"
        /\ \E i \in 1..Len(threads) :
              threads[i].chan_val # NoVal /\ threads[i].state = "Ready"

\* C6: when a non-base thread that parked in recvq is switched back in, its
\* delivered slot is not empty; its chan_recv returns the value of the
\* chan_send that took it out of recvq without touching the buffer and
\* without panicking, and leaves the slot empty.
C6_ParkedReceiverGetsHandedValue ==
    [][(/\ resume
        /\ Me.ctx = "recv"
        /\ current # BASE_THREAD_ID)
          => /\ Me.chan_val # NoVal
             /\ current \in DOMAIN hist.handoff
             /\ aborted' = "none"
             /\ hist'.rcvd[Me.chan] = Append(hist.rcvd[Me.chan], hist.handoff[current])
             /\ chans' = chans
             /\ Thread(threads', current).chan_val = NoVal]_vars

\* the ids parked in the queues of channel c, oldest first
SendqIds(c) ==
    LET q == Contents(chans[c].sendq) IN [i \in 1..Len(q) |-> q[i][1]]
RecvqIds(c) == Contents(chans[c].recvq)

Running == {i \in 1..Len(threads) : threads[i].state = "Running"}

\* C7: as long as the base thread has made no channel call and nothing has
\* panicked, exactly one thread of the list is Running, and it is current.
C7_SingleRunner ==
    (aborted = "none" /\ ~hist.base)
        => /\ Cardinality(Running) = 1
           /\ \A i \in Running : threads[i].id = current

\* a thread has completed and a spawned thread runs while another is parked
C7_Witness ==
    /\ aborted = "none"
    /\ ~hist.base
    /\ current # BASE_THREAD_ID
    /\ \/ Len(threads) < count
       \/ \E i \in 1..Len(threads) :
             threads[i].state \in {"ChannelBlockSend", "ChannelBlockRecv"}
    /\ \E i \in 1..Len(threads) : threads[i].state = "Ready"

\* C8: for a channel of any capacity: (1) sendq nonempty implies the buffer
\* holds as many elements as its capacity; (2) recvq nonempty implies the
\* buffer holds none; (3) sendq and recvq are not both nonempty.
C8_ChannelShape ==
    \A c \in ChanIds :
        LET ch == chans[c]
        IN  /\ len(ch.sendq) > 0 => (is_full(ch.buffer) /\ len(ch.buffer) = ch.buffer.size)
            /\ len(ch.recvq) > 0 => len(ch.buffer) = 0
            /\ ~(len(ch.sendq) > 0 /\ len(ch.recvq) > 0)

\* a sender parked on a full buffer of capacity 1 or more, and a receiver
\* parked on another channel
C8_Witness ==
    /\ \E c \in ChanIds : len(chans[c].sendq) > 0 /\ chans[c].buffer.size > 0
    /\ \E c \in ChanIds : len(chans[c].recvq) > 0

\* C9: every id in a sendq is the id of a thread of the list whose state is
\* ChannelBlockSend, and every id in a recvq that of a thread of the list
\* whose state is ChannelBlockRecv.
C9_QueuedThreadsAreBlocked ==
    aborted = "none" =>
        \A c \in ChanIds :
            /\ \A id \in Range(SendqIds(c)) :
                  Live(threads, id) /\ Thread(threads, id).state = "ChannelBlockSend"
            /\ \A id \in Range(RecvqIds(c)) :
                  Live(threads, id) /\ Thread(threads, id).state = "ChannelBlockRecv"

\* C10: when Runtime::run returns, nothing has panicked, the base thread is
\* current and Running, and every other thread of the list is blocked with
\* its id in a queue of the matching kind (so none is Ready).
C10_RunReturnsOnDeadlock ==
    phase = "returned" =>
        /\ aborted = "none"
        /\ current = BASE_THREAD_ID
        /\ Thread(threads, BASE_THREAD_ID).state = "Running"
        /\ \A i \in 1..Len(threads) :
              threads[i].id # BASE_THREAD_ID =>
                  \/ /\ threads[i].state = "ChannelBlockSend"
                     /\ \E c \in ChanIds : threads[i].id \in Range(SendqIds(c))
                  \/ /\ threads[i].state = "ChannelBlockRecv"
                     /\ \E c \in ChanIds : threads[i].id \in Range(RecvqIds(c))

\* the threads created so far whose function has returned into done
Completed == (1..(count - 1)) \ {threads[i].id : i \in 1..Len(threads)}

OnlyBaseLeft ==
    /\ aborted = "none"
    /\ Len(threads) = 1
    /\ threads[1].id = BASE_THREAD_ID
    /\ Completed = 1..(count - 1)

\* C11: when every spawned thread makes finitely many yield_thread and
\* spawn calls and no channel call, every spawned thread's function
\* eventually returns (the thread completes), Runtime::run eventually
\* returns, and when it returns the thread list holds the base thread only.
C11_YieldOnlyTerminates ==
    /\ <>(phase = "returned")
    /\ [](phase = "returned" =>
            /\ OnlyBaseLeft
            /\ prog.main = <<>>
            /\ \A t \in DOMAIN prog.code : prog.code[t] = <<>>)

\* the demo of main has run to its end: three threads were created and completed
C11_Witness ==
    /\ prog.name = "demo"
    /\ phase = "returned"
    /\ count = 4
    /\ OnlyBaseLeft

\* the ids of a thread list, in its order
Ids(ths) == [i \in 1..Len(ths) |-> ths[i].id]

\* the thread list without its element at pos
Without(ths, pos) == SubSeq(ths, 1, pos - 1) \o SubSeq(ths, pos + 1, Len(ths))

\* a done that finds a successor: the completing thread is out of the list,
\* whose other threads keep their order; the successor is another thread,
\* one that was Ready, and it alone changes (to Running)
DoneRemovesThenSelects ==
    (UserTurn /\ done /\ aborted' = "none")
        => LET pos == cur_pos(threads, current)
               rest == Without(threads, pos)
           IN  /\ Ids(threads') = Ids(rest)
               /\ ~Live(threads', current)
               /\ current' # current
               /\ Live(rest, current')
               /\ Thread(rest, current').state = "Ready"
               /\ threads' = WithState(rest, current', "Running")

\* C12: when the function of a non-base thread returns, done removes the
\* thread from the list before it selects the successor, the successor is
\* one of the remaining threads, and from then on (while the process has
\* not panicked) the id of the removed thread is never current and never
\* in the list again.
C12_CompletionCleanup ==
    /\ [][DoneRemovesThenSelects]_vars
    /\ [][Completed \subseteq Completed']_vars
    /\ [](aborted = "none" => current \notin Completed)

\* a thread that was not last in the list has completed while another
\* spawned thread was Ready, and the list has changed since
C12_Witness ==
    /\ aborted = "none"
    /\ 1 \in Completed
    /\ Len(threads) = 2
    /\ threads[2].id = 2
    /\ current = 2
    /\ threads[1].state = "Ready"

\* C13: a chan_send that parked its caller returns only after a chan_recv
\* has taken the caller's (id, value) entry out of sendq (and returned the
\* value): a thread that is running its own code has no entry in any sendq.
C13_ParkedSendReturnsAfterRecv ==
    (aborted = "none" /\ Me.ctx = "user")
        => \A c \in ChanIds : current \notin Range(SendqIds(c))

\* the caller is not marked blocked, nothing is queued and nothing switches
NothingParked == threads' = threads /\ chans' = chans /\ current' = current

\* a chan_send that must park (no parked receiver, buffer full) while sendq
\* holds BLOCK_QUEUE_SIZE entries panics
SendqOverflow(c) ==
    (/\ UserTurn
     /\ current \in DOMAIN prog.code
     /\ prog.code[current] # <<>>
     /\ Op.op = "send"
     /\ is_empty(chans[c].recvq)
     /\ is_full(chans[c].buffer)
     /\ len(chans[c].sendq) = BLOCK_QUEUE_SIZE
     /\ chan_send(c, Op.val))
        => aborted' # "none" /\ NothingParked

\* a chan_recv that must park (no parked sender, buffer empty) while recvq
\* holds BLOCK_QUEUE_SIZE entries panics
RecvqOverflow(c) ==
    (/\ UserTurn
     /\ is_empty(chans[c].sendq)
     /\ is_empty(chans[c].buffer)
     /\ len(chans[c].recvq) = BLOCK_QUEUE_SIZE
     /\ chan_recv(c))
        => aborted' # "none" /\ NothingParked

\* C14: a chan_send that must park while sendq holds BLOCK_QUEUE_SIZE
\* entries, and a chan_recv that must park while recvq holds
\* BLOCK_QUEUE_SIZE entries, panic instead of parking: the caller is not
\* marked blocked and nothing switches; and no queue ever holds more than
\* BLOCK_QUEUE_SIZE entries.
C14_QueueOverflowIsFatal ==
    /\ [][\A c \in ChanIds : SendqOverflow(c) /\ RecvqOverflow(c)]_vars
    /\ [](\A c \in ChanIds :
            /\ Len(Contents(chans[c].sendq)) <= BLOCK_QUEUE_SIZE
            /\ Len(Contents(chans[c].recvq)) <= BLOCK_QUEUE_SIZE)

\* the chan_recv of an eleventh receiver has panicked on the full recvq
C14_Witness ==
    /\ aborted = "No more space in recvq"
    /\ len(chans[1].recvq) = BLOCK_QUEUE_SIZE
    /\ Me.state = "Running"

\* yield_thread called by the current thread while its state is st: after a
\* switch the caller's state is Ready if st was Running and st otherwise
YieldKeeps(st) ==
    LET called == change_thread_state(threads, current, st)
        y == yield_thread(called, current, "yield")
    IN  y.switched =>
            Thread(y.threads, current).state = (IF st = "Running" THEN "Ready" ELSE st)

\* C15: yield_thread called by a thread whose state is ChannelBlockSend or
\* ChannelBlockRecv leaves that state as it is across the switch; it makes
\* the caller Ready only if the caller was Running.  (And so a thread that
\* was switched out inside chan_send or chan_recv is blocked, not Ready,
\* until another thread's call changes its state.)
C15_YieldKeepsBlockedState ==
    /\ [](aborted = "none" =>
            \A st \in {"Running", "ChannelBlockSend", "ChannelBlockRecv"} : YieldKeeps(st))
    /\ [][\A c \in ChanIds :
            (/\ UserTurn
             /\ chan_send(c, nextVal) \/ chan_recv(c)
             /\ current' # current)
                => /\ Thread(threads', current).state
                        \in {"ChannelBlockSend", "ChannelBlockRecv"}
                   /\ current \in Range(SendqIds(c)') \cup Range(RecvqIds(c)')]_vars

\* a sender and a receiver are parked, switched out by the yield_thread of
\* their calls, and a third thread runs
C15_Witness ==
    /\ aborted = "none"
    /\ \E i \in 1..Len(threads) :
          threads[i].state = "ChannelBlockSend" /\ threads[i].ctx = "send"
    /\ \E i \in 1..Len(threads) :
          threads[i].state = "ChannelBlockRecv" /\ threads[i].ctx = "recv"
    /\ Me.state = "Running"

\* the ids given to threads so far are those below count
NewIdsAreFresh ==
    \A i \in 1..Len(threads') :
        threads'[i].id \notin Range(Ids(threads))
            => threads'[i].id \notin 0..(count - 1)

\* C16: the threads of the list have pairwise different ids, all below
\* count; count never decreases and changes only by a spawn, which adds 1
\* and one thread; and a new thread never gets the id of a thread that is or
\* was in the list (so not that of a completed one).
C16_UniqueIds ==
    /\ [](\A i, j \in 1..Len(threads) : i # j => threads[i].id # threads[j].id)
    /\ [](\A i \in 1..Len(threads) : threads[i].id < count)
    /\ [][count' >= count]_vars
    /\ [][(UserTurn /\ create_thread)
            => /\ count' = count + 1
               /\ Ids(threads') = Append(Ids(threads), count)]_vars
    /\ [][count' # count => Len(threads') = Len(threads) + 1]_vars
    /\ [][NewIdsAreFresh]_vars

\* the first spawned thread has completed and the thread spawned last is in
\* the list
C16_Witness ==
    /\ count = MaxCount
    /\ 1 \in Completed
    /\ \E i \in 1..Len(threads) : threads[i].id = count - 1

\* the base thread is in the list, Running when it is current and Ready
\* when it is not
BaseSchedulable ==
    /\ Live(threads, BASE_THREAD_ID)
    /\ Thread(threads, BASE_THREAD_ID).state
          = (IF current = BASE_THREAD_ID THEN "Running" ELSE "Ready")

\* a call of a thread other than the base thread that calls yield_thread:
\* the public yield_thread(), or a chan_send or chan_recv that parks
NonBaseYields ==
    /\ UserTurn
    /\ current # BASE_THREAD_ID
    /\ \/ yield_now
       \/ \E c \in ChanIds :
             /\ chan_send(c, nextVal) \/ chan_recv(c)
             /\ Len(Contents(chans'[c].sendq)) + Len(Contents(chans'[c].recvq))
                   > Len(Contents(chans[c].sendq)) + Len(Contents(chans[c].recvq))

\* C17: while the base thread has made no channel call, it is in the thread
\* list, Running exactly when it is current and Ready otherwise; so the
\* round_robin(start_pos).unwrap() of done does not panic, and a
\* yield_thread called by another thread finds a Ready thread and switches.
C17_BaseAlwaysSchedulable ==
    /\ [](~hist.base => BaseSchedulable /\ aborted = "none")
    /\ [][(~hist.base /\ UserTurn /\ done)
            => aborted' = "none" /\ current' # current]_vars
    /\ [][(~hist.base /\ NonBaseYields)
            => aborted' = "none" /\ current' # current]_vars

\* a thread has completed, every other spawned thread is parked, and the
\* base thread, the only one that was Ready, has been switched back in
C17_Witness ==
    /\ ~hist.base
    /\ current = BASE_THREAD_ID
    /\ Completed # {}
    /\ Len(threads) >= 2
    /\ \A i \in 1..Len(threads) :
          threads[i].id # BASE_THREAD_ID =>
              threads[i].state \in {"ChannelBlockSend", "ChannelBlockRecv"}
    /\ Me.ctx = "run"

\* the positions of a list of n threads in the cyclic order that starts at
\* start: start, start + 1, ..., n, 1, ..., start - 1
CyclicOrder(n, start) == [k \in 1..n |-> ((start + k - 2) % n) + 1]

\* the first position in that order whose thread is Ready; 0 if there is none
FirstReady(ths, start) ==
    LET order == CyclicOrder(Len(ths), start)
        ks == {k \in 1..Len(ths) : ths[order[k]].state = "Ready"}
    IN  IF ks = {} THEN 0 ELSE order[CHOOSE k \in ks : \A j \in ks : k <= j]

\* the list with everything but the order and the states of its threads erased
StatesOnly(ths) == [i \in 1..Len(ths) |-> Thread_new(0, ths[i].state)]

\* C18: round_robin(start), for start inside the thread list, returns the
\* first position in the cyclic order start, start + 1, ..., len - 1, 0, ...,
\* start - 1 whose thread is Ready, and None exactly when no thread of the
\* list is Ready; it depends on the order of the list, the states and start
\* only.
C18_RoundRobinFirstReady ==
    \A start \in 1..Len(threads) :
        /\ round_robin(threads, start) = FirstReady(threads, start)
        /\ round_robin(threads, start) = 0
              <=> \A i \in 1..Len(threads) : threads[i].state # "Ready"
        /\ round_robin(threads, start) = round_robin(StatesOnly(threads), start)

\* after a yield, the scan from the last position of a full-length list has
\* to wrap around to find the one Ready thread
C18_Witness ==
    /\ Len(threads) = MaxList
    /\ \E i \in 1..Len(threads) : threads[i].ctx = "yield"
    /\ round_robin(threads, Len(threads)) \in 1..(Len(threads) - 1)
    /\ Cardinality({i \in 1..Len(threads) : threads[i].state = "Ready"}) = 1

NoneReady(ths) == \A i \in 1..Len(ths) : ths[i].state # "Ready"

\* yield_thread called by the current thread while its state is st and no
\* thread is Ready: false, and the list and current as they were
YieldFalseChangesNothing(st) ==
    LET called == change_thread_state(threads, current, st)
        y == yield_thread(called, current, "yield")
    IN  NoneReady(called) =>
            /\ ~y.switched
            /\ y.threads = called
            /\ y.current = current

\* C19: when yield_thread finds no Ready thread it returns false and changes
\* nothing: current, the thread list, the state of every thread (that of
\* the caller, Running or blocked, included), the delivered slots and the
\* queues of every channel are as before the call.
C19_YieldFalseChangesNothing ==
    /\ [](aborted = "none" =>
            \A st \in {"Running", "ChannelBlockSend", "ChannelBlockRecv"} :
                YieldFalseChangesNothing(st))
    /\ [][(UserTurn /\ NoneReady(threads) /\ yield_now)
            => UNCHANGED <<threads, current, count, chans, aborted>>]_vars
    /\ [][(NoneReady(threads) /\ run)
            => /\ phase' = "returned"
               /\ UNCHANGED <<threads, current, count, chans, aborted>>]_vars

\* Runtime::run has returned, on the false of yield_thread, while the
\* spawned threads are parked on channels
C19_Witness ==
    /\ phase = "returned"
    /\ aborted = "none"
    /\ ~hist.base
    /\ Len(threads) = MaxCount
    /\ NoneReady(threads)
    /\ \E c \in ChanIds : len(chans[c].sendq) > 0

\* the assertions of Runtime::add_val_to_chan
HandOffAsserts ==
    {"add_val_to_chan: assert_ne!(current, id)",
     "add_val_to_chan: assert!(chan_val.is_none())"}

\* the receiver a chan_send takes from recvq is another thread than the
\* caller, it is in the list, and its delivered slot is empty
HandOffIsSafe(c) ==
    (/\ UserTurn
     /\ ~is_empty(chans[c].recvq)
     /\ chan_send(c, nextVal))
        => LET R == Contents(chans[c].recvq)[1]
           IN  /\ R # current
               /\ Live(threads, R)
               /\ Thread(threads, R).chan_val = NoVal
               /\ aborted' = "none"

\* C20: the assertions of the direct hand-off never fail: whenever
\* chan_send hands its value to a receiver taken from recvq, the receiver is
\* not the current thread and its delivered slot is empty (so a slot never
\* gets a second value while it holds one).
C20_HandOffAssertionsHold ==
    /\ [](aborted \notin HandOffAsserts)
    /\ [][\A c \in ChanIds : HandOffIsSafe(c)]_vars

\* a thread that already got one value by hand-off is handed a second one
C20_Witness ==
    /\ aborted = "none"
    /\ \E c \in ChanIds : \E i \in 1..Len(hist.log[c]) :
          /\ hist.log[c][i].op = "recv"
          /\ hist.log[c][i].path = "delivered"
          /\ i < Len(hist.log[c])
          /\ hist.log[c][Len(hist.log[c])].op = "send"
          /\ hist.log[c][Len(hist.log[c])].path = "recvq"
    /\ hist.handoff # <<>>

\* the buffer agrees with the bounded FIFO queue: the last call failed
\* exactly when the queue held size elements (write) or none (read), a read
\* returned the oldest element, the buffer holds the elements of the queue
\* in order, len is their number, and full is set exactly when it is size
BoundedFifo ==
    LET b == chans[1].buffer
    IN  /\ hist.op = "write" => (hist.ok <=> hist.held < b.size)
        /\ hist.op = "read" => (hist.ok <=> hist.held > 0)
        /\ Contents(b) = hist.queue
        /\ len(b) = Len(hist.queue)
        /\ is_full(b) <=> Len(hist.queue) = b.size
        /\ is_empty(b) <=> hist.queue = <<>>
        /\ b.size = 0 => hist.op = "new" \/ ~hist.ok

\* a read returns the element that was then the oldest of the queue, and a
\* call that fails leaves the buffer as it was
FifoSteps ==
    /\ (hist'.op = "read" /\ hist'.ok) => hist'.val = Head(hist.queue)
    /\ ~hist'.ok => chans' = chans

IndicesBelowSize ==
    chans[1].buffer.read < chans[1].buffer.size
        /\ chans[1].buffer.write < chans[1].buffer.size

\* C21 as stated: a CircularBuffer of capacity N >= 0 is a bounded FIFO
\* queue under every sequence of read and write calls, and its read and
\* write indices stay below N.
C21_BufferIsBoundedFifo_AsStated ==
    /\ [](BoundedFifo /\ IndicesBelowSize)
    /\ [][FifoSteps]_vars

\* C21, amended: a CircularBuffer of capacity N >= 0 is a bounded FIFO queue
\* under every sequence of read and write calls (write fails, leaving the
\* buffer as it was, exactly when N elements are held, read fails exactly
\* when none is held, reads return the elements in the order they were
\* written, len is the number of elements held, full is set exactly when N
\* are held, and for N = 0 every write and every read fails); its read and
\* write indices stay below N when N >= 1, and stay 0 when N = 0.
C21_BufferIsBoundedFifo ==
    /\ [](BoundedFifo)
    /\ [](IF chans[1].buffer.size >= 1
          THEN IndicesBelowSize
          ELSE chans[1].buffer.read = 0 /\ chans[1].buffer.write = 0)
    /\ [][FifoSteps]_vars

\* a write has failed on a buffer of the largest capacity that is full
\* after its indices wrapped around
C21_Witness ==
    /\ chans[1].buffer.size = MaxBufSize
    /\ hist.op = "write"
    /\ ~hist.ok
    /\ chans[1].buffer.read = chans[1].buffer.write
    /\ chans[1].buffer.read > 0

\* a call that parks puts its caller at the end of the queue
ParksAtTheEnd(c) ==
    /\ (UserTurn /\ chan_send(c, nextVal)
            /\ Contents(chans'[c].sendq) # Contents(chans[c].sendq)
            /\ is_empty(chans[c].recvq))
          => Contents(chans'[c].sendq)
                = Append(Contents(chans[c].sendq), <<current, nextVal>>)
    /\ (UserTurn /\ chan_recv(c)
            /\ Contents(chans'[c].recvq) # Contents(chans[c].recvq))
          => Contents(chans'[c].recvq) = Append(Contents(chans[c].recvq), current)

\* chan_send on a channel with a parked receiver takes the receiver at the
\* head of recvq and makes it, and no other thread, Ready
SendWakesHeadReceiver(c) ==
    (/\ UserTurn
     /\ ~is_empty(chans[c].recvq)
     /\ chan_send(c, nextVal))
        => LET R == Contents(chans[c].recvq)[1]
           IN  /\ aborted' = "none"
               /\ Contents(chans'[c].recvq) = Tail(Contents(chans[c].recvq))
               /\ Live(threads, R)
               /\ Thread(threads, R).state = "ChannelBlockRecv"
               /\ WithState(threads', R, "ChannelBlockRecv")
                     = add_val_to_chan(threads, R, nextVal)
               /\ Thread(threads', R).state = "Ready"

\* C22: parked threads are unblocked in the order they parked: a call that
\* parks joins the end of the queue; each chan_recv that finds sendq
\* nonempty wakes exactly one sender, the one at the head of sendq (a thread
\* that is parked there), and returns that sender's value; each chan_send
\* that finds recvq nonempty wakes exactly one receiver, the one at the head
\* of recvq.
C22_UnblockedInParkingOrder ==
    [][\A c \in ChanIds :
          /\ ParksAtTheEnd(c)
          /\ RecvTakesHeadSender(c)
          /\ (UserTurn /\ ~is_empty(chans[c].sendq) /\ chan_recv(c))
                => Thread(threads, Contents(chans[c].sendq)[1][1]).state
                      = "ChannelBlockSend"
          /\ SendWakesHeadReceiver(c)]_vars

----------------------------------------------------------------------------
(* Rotation: user code that may call anything, in any order, on one        *)
(* channel, with up to MaxRotCount - 1 spawned threads.  prog.owed holds    *)
(* the turns that are due: <<A, B>> is in it when thread A gave up control  *)
(* (Runtime::yield_thread switched away from it, in a yield, in             *)
(* Runtime::run or in a channel call that parked it) at a moment when       *)
(* thread B was Ready, and B has not been switched in since; a pair goes    *)
(* when either thread completes.                                            *)

MaxRotCount == 4

RotInit ==
    /\ Runtime_new
    /\ \E size \in 0..1 : chans = <<Channel_new(size)>>
    /\ phase = "main"
    /\ aborted = "none"
    /\ hist = NoHistory
    /\ nextVal = 1
    /\ prog = [name |-> "rotation", code |-> <<>>, owed |-> {}]

\* the step switched away from the thread that made it: its context was saved
GaveUp ==
    /\ Live(threads', current)
    /\ Thread(threads, current).ctx = "user"
    /\ Thread(threads', current).ctx # "user"

ReadyIds(ths) == {ths[i].id : i \in {j \in 1..Len(ths) : ths[j].state = "Ready"}}

Noted ==
    LET new == IF GaveUp
               THEN {<<current, B>> : B \in ReadyIds(threads) \ {current}}
               ELSE {}
    IN  prog' = [prog EXCEPT !.owed =
                    {p \in @ \cup new : /\ p[2] # current'
                                        /\ Live(threads', p[1])
                                        /\ Live(threads', p[2])}]

RotSpawn ==
    /\ UserTurn
    /\ count < MaxRotCount
    /\ create_thread
    /\ UNCHANGED <<phase, nextVal, prog>>

RotYield ==
    /\ UserTurn
    /\ yield_now
    /\ Noted
    /\ UNCHANGED <<phase, nextVal>>

RotSend ==
    /\ UserTurn
    /\ nextVal <= MaxSends
    /\ \E c \in ChanIds : chan_send(c, nextVal)
    /\ Noted
    /\ nextVal' = nextVal + 1
    /\ UNCHANGED phase

RotRecv ==
    /\ UserTurn
    /\ \E c \in ChanIds : chan_recv(c)
    /\ Noted
    /\ UNCHANGED <<phase, nextVal>>

RotReturn ==
    /\ UserTurn
    /\ done
    /\ Noted
    /\ UNCHANGED <<phase, nextVal>>

\* Runtime::run: one turn of `while self.yield_thread() {}`
RotRun ==
    /\ aborted = "none"
    /\ current = BASE_THREAD_ID
    /\ phase = "run"
    /\ Me.ctx = "user"
    /\ LET y == yield_thread(threads, current, "run")
       IN  /\ threads' = y.threads
           /\ current' = y.current
           /\ phase' = IF y.switched THEN "run" ELSE "returned"
    /\ Noted
    /\ UNCHANGED <<count, chans, aborted, hist, nextVal>>

RotNext ==
    \/ RotSpawn
    \/ RotYield
    \/ RotSend
    \/ RotRecv
    \/ RotReturn
    \/ Resume
    \/ EnterRun
    \/ RotRun

SpecRotation == RotInit /\ [][RotNext]_vars

\* C23: if thread A gives up control by a successful yield or by parking on
\* a channel while thread B is Ready, then B becomes Running before A is
\* Running again, whatever threads complete or are spawned in between: the
\* thread that executes is never one that still owes a turn to another.
C23_RotationFairness ==
    \A p \in prog.owed : p[1] # current

\* the entries of the sendqs, and of the recvqs, of all channels that carry
\* this id
RECURSIVE Sum(_, _)
Sum(f, S) ==
    IF S = {} THEN 0
    ELSE LET x == CHOOSE y \in S : TRUE IN f[x] + Sum(f, S \ {x})

SendEntries(id) == Sum([c \in ChanIds |-> Occurrences(SendqIds(c), id)], ChanIds)
RecvEntries(id) == Sum([c \in ChanIds |-> Occurrences(RecvqIds(c), id)], ChanIds)

\* C24: when the channel calls are made by threads other than the base
\* thread and nothing has panicked, a thread of the list has state
\* ChannelBlockSend if and only if exactly one sendq entry over all channels
\* carries its id, and state ChannelBlockRecv if and only if exactly one
\* recvq entry over all channels carries its id; a Ready or Running thread
\* has no entry in any queue, and no id occurs twice in the queues.
C24_BlockedIffQueued ==
    (aborted = "none" /\ ~hist.base)
        => /\ \A i \in 1..Len(threads) :
                 LET t == threads[i]
                 IN  /\ t.state = "ChannelBlockSend" <=> SendEntries(t.id) = 1
                     /\ t.state = "ChannelBlockRecv" <=> RecvEntries(t.id) = 1
                     /\ t.state \in {"Ready", "Running"}
                           => SendEntries(t.id) + RecvEntries(t.id) = 0
           /\ \A id \in 0..(count - 1) : SendEntries(id) + RecvEntries(id) <= 1

\* after a chan_recv has returned a value, a sender is parked on one channel
\* and a receiver on another, and the base thread, which made no channel
\* call, runs
C24_Witness ==
    /\ aborted = "none"
    /\ ~hist.base
    /\ current = BASE_THREAD_ID
    /\ \E c \in ChanIds : hist.rcvd[c] # <<>>
    /\ \E i \in 1..Len(threads) :
          threads[i].state = "ChannelBlockSend" /\ SendEntries(threads[i].id) = 1
    /\ \E i \in 1..Len(threads) :
          threads[i].state = "ChannelBlockRecv" /\ RecvEntries(threads[i].id) = 1

====
